---- MODULE Spec2Model ----
(***************************************************************************)
(* The vehicle service of backend/src/services/vehicleService.ts as a      *)
(* state machine: the in-memory store `vehicles`, the persisted document,  *)
(* the number of writeFileSync calls and the clock read by Date.now().     *)
(*                                                                         *)
(* A string of the program is a sequence of characters, each character a   *)
(* one-element TLA+ string ("sz" stands for the single character U+00DF,   *)
(* whose upper case is the two characters "SS").  Ids and models are only  *)
(* compared and concatenated, so they stay TLA+ strings.                   *)
(***************************************************************************)
EXTENDS Integers, Sequences, FiniteSets, TLC

VARIABLES
    vehicles,    \* the module-level array `vehicles`
    file,        \* the JSON document at dataPath, as the array it encodes
    writeCalls,  \* number of fs.writeFileSync calls so far
    now,         \* the millisecond Date.now() returns
    last         \* the call whose result has not been handed back yet: its
                 \* arguments, its result and the store it ran on

vars == <<vehicles, file, writeCalls, now, last>>

----------------------------------------------------------------------------
(* Bounds of the exploration *)

MaxWrites == 4     \* calls are explored until this many writes have happened
MaxClock == 1      \* the clock takes the values 0..MaxClock
SmallFleet == 20   \* size of the smaller all-Available seed fleet
LargeFleet == 40   \* size of the larger all-Available seed fleet
MaxPlateLen == 12  \* the plates of PlateSpec have up to this many letters and digits
MaxPlateWrites == 1 \* PlateSpec explores calls until this many writes have happened

----------------------------------------------------------------------------
(* Characters *)

LowerLetters ==
    <<"a","b","c","d","e","f","g","h","i","j","k","l","m",
      "n","o","p","q","r","s","t","u","v","w","x","y","z">>

UpperLetters ==
    <<"A","B","C","D","E","F","G","H","I","J","K","L","M",
      "N","O","P","Q","R","S","T","U","V","W","X","Y","Z">>

Digits == <<"0","1","2","3","4","5","6","7","8","9">>

Range(s) == { s[i] : i \in 1..Len(s) }

RECURSIVE Flatten(_)
Flatten(ss) == IF ss = <<>> THEN <<>> ELSE Head(ss) \o Flatten(Tail(ss))

\* String.prototype.toUpperCase on one character: a-z map to A-Z, U+00DF maps
\* to "SS", every other character of the alphabet used here maps to itself.
LowerSet == Range(LowerLetters)

UpperOfLower ==
    [c \in LowerSet |->
        UpperLetters[CHOOSE i \in 1..Len(LowerLetters) : LowerLetters[i] = c]]

UpperOfChar(c) ==
    IF c \in LowerSet THEN <<UpperOfLower[c]>>
    ELSE IF c = "sz" THEN <<"S", "S">>
    ELSE <<c>>

toUpperCase(s) == Flatten([i \in 1..Len(s) |-> UpperOfChar(s[i])])

\* The character class [A-Z0-9]
UpperAlnumChars == Range(UpperLetters) \cup Range(Digits)

IsUpperAlnum(c) == c \in UpperAlnumChars

----------------------------------------------------------------------------
(* Helpers of the service *)

\* Mutant: the g flag of the regular expression forgotten, so that only the
\* first character outside A-Z and 0-9 is removed.
normalizePlateFirstOnly(p) ==
    LET u == toUpperCase(p)
        bad == { i \in 1..Len(u) : ~IsUpperAlnum(u[i]) }
    IN IF bad = {} THEN u
       ELSE LET k == CHOOSE i \in bad : \A j \in bad : i <= j
            IN [i \in 1..(Len(u) - 1) |-> IF i < k THEN u[i] ELSE u[i + 1]]

\* normalizePlate: (p || '').toUpperCase().replace(/[^A-Z0-9]/g, '')
normalizePlate(p) ==
    SelectSeq(toUpperCase(IF p = <<>> THEN <<>> ELSE p), IsUpperAlnum)

\* Mutant: the upper bound of the length off by one, /^[A-Z0-9]{5,11}$/.
isValidPlateNormUpTo11(norm) ==
    /\ Len(norm) >= 5
    /\ Len(norm) <= 11
    /\ \A i \in 1..Len(norm) : IsUpperAlnum(norm[i])

\* Mutant: the lower bound of the length forgotten, /^[A-Z0-9]{0,10}$/.
isValidPlateNormNoMinimum(norm) ==
    /\ Len(norm) <= 10
    /\ \A i \in 1..Len(norm) : IsUpperAlnum(norm[i])

\* isValidPlateNorm: /^[A-Z0-9]{5,10}$/.test(norm)
isValidPlateNorm(norm) ==
    /\ Len(norm) >= 5
    /\ Len(norm) <= 10
    /\ \A i \in 1..Len(norm) : IsUpperAlnum(norm[i])

\* Mutant: the failure signalled by a thrown Error, as in an earlier revision
\* of the service (throw new Error(message)).
errThrown(code, message) == [ok |-> FALSE, thrown |-> message]

\* err(code, message)
err(code, message) == [ok |-> FALSE, error |-> [code |-> code, message |-> message]]

\* ServiceErrorCode, without ADMIN_APPROVAL_REQUIRED, which only the router uses
ServiceErrorCodes ==
    {"LICENSE_PLATE_REQUIRED", "MODEL_REQUIRED", "INVALID_LICENSE_PLATE",
     "DUPLICATE_LICENSE_PLATE", "VEHICLE_NOT_FOUND", "INVALID_STATUS",
     "ILLEGAL_STATUS_TRANSITION", "MAINTENANCE_CAP_EXCEEDED",
     "NOT_ALLOWED_STATUS_FOR_DELETE"}

Ok(data) == [ok |-> TRUE, data |-> data]

Max(a, b) == IF a >= b THEN a ELSE b

\* Math.max(1, Math.floor(total * 0.05)); the double product total * 0.05 is
\* never below the exact total / 20, and for the totals reached here it is
\* below the next integer, so the floor is that of total * 5 / 100.
maintenanceCap(total) == Max(1, (total * 5) \div 100)

\* vehicles.filter(v => v.status === 'Maintenance').length
maintenanceCount(vs) == Cardinality({ i \in 1..Len(vs) : vs[i].status = "Maintenance" })

\* vehicles.findIndex(pred) for the two lookups of the service, 1-based;
\* 0 stands for "no element" (-1 / undefined in the program).
findIndexById(vs, id) ==
    IF \E i \in 1..Len(vs) : vs[i].id = id
    THEN CHOOSE i \in 1..Len(vs) :
            /\ vs[i].id = id
            /\ \A j \in 1..(i - 1) : vs[j].id # id
    ELSE 0

findIndexByPlate(vs, plate) ==
    IF \E i \in 1..Len(vs) : vs[i].licensePlate = plate
    THEN CHOOSE i \in 1..Len(vs) :
            /\ vs[i].licensePlate = plate
            /\ \A j \in 1..(i - 1) : vs[j].licensePlate # plate
    ELSE 0

\* Mutant: the deleted slot filled with the last vehicle (swap-remove) instead
\* of the vehicles behind it moving up.
spliceSwapRemove(vs, index) ==
    [i \in 1..(Len(vs) - 1) |-> IF i = index THEN vs[Len(vs)] ELSE vs[i]]

\* vehicles.splice(index, 1)
splice(vs, index) == [i \in 1..(Len(vs) - 1) |-> IF i < index THEN vs[i] ELSE vs[i + 1]]

\* Mutant: the same-status short-circuit never taken.
sameStatusNever(current, newStatus) == FALSE

\* The no-op test of editVehicleStatus: vehicle.status === newStatus
sameStatus(current, newStatus) == current = newStatus

\* Mutant: the same-plate short-circuit never taken.
samePlateNever(normalized, current) == FALSE

\* The no-op test of editVehicle: normalized === vehicle.licensePlate
samePlate(normalized, current) == normalized = current

\* Mutant: the duplicate check of createVehicle finds nothing.
plateTakenNever(vs, plate) == FALSE

\* Mutant: the duplicate check of createVehicle looks at the first vehicle only.
plateTakenFirstOnly(vs, plate) == Len(vs) > 0 /\ vs[1].licensePlate = plate

\* vehicles.some(v => v.licensePlate === normalizedPlate)
plateTaken(vs, plate) == \E i \in 1..Len(vs) : vs[i].licensePlate = plate

\* Mutant: the new vehicle put in front (unshift) instead of appended.
unshift(vs, v) == <<v>> \o vs

\* vehicles.push(newVehicle)
push(vs, v) == Append(vs, v)

\* Mutant: the rule on leaving Maintenance forgets InUse.
illegalTransitionNever(current, newStatus) == FALSE

\* vehicle.status === 'Maintenance' && newStatus !== 'Available'
illegalTransition(current, newStatus) ==
    current = "Maintenance" /\ newStatus # "Available"

\* Mutant: the cap compared with >= instead of >.
capExceededOffByOne(vs) == maintenanceCount(vs) + 1 >= maintenanceCap(Len(vs))

\* currentMaintenance + 1 > cap
capExceeded(vs) == maintenanceCount(vs) + 1 > maintenanceCap(Len(vs))

\* Mutant: InUse vehicles may be deleted as well.
deletableNotMaintenance(status) == status # "Maintenance"

\* The status test of deleteVehicle, negated: vehicle.status !== 'Available'
\* refuses the delete.
deletable(status) == status = "Available"

\* Mutant: every status value accepted.
isValidStatusAlways(newStatus) == TRUE

\* ['Available', 'InUse', 'Maintenance'].includes(newStatus)
isValidStatus(newStatus) == newStatus \in {"Available", "InUse", "Maintenance"}

\* Mutant: the cap consulted for every change of a vehicle not in Maintenance.
entersMaintenanceAlways(current, newStatus) == current # "Maintenance"

\* newStatus === 'Maintenance' && vehicle.status !== 'Maintenance'
entersMaintenance(current, newStatus) ==
    newStatus = "Maintenance" /\ current # "Maintenance"

\* Mutant: the status update also stamps the record's createdAt.
withStatusStamped(vs, k, newStatus) ==
    [vs EXCEPT ![k].status = newStatus, ![k].createdAt = 0]

\* vehicle.status = newStatus, on the vehicle found (an element of the array)
withStatus(vs, k, newStatus) == [vs EXCEPT ![k].status = newStatus]

\* Mutant: persist() never reached.
OutcomeUnsaved(result, vs, persisted) ==
    [result |-> result, vehicles |-> vs, persisted |-> FALSE]

\* What a call leaves behind: its result, the store, and whether persist() ran.
Outcome(result, vs, persisted) ==
    [result |-> result, vehicles |-> vs, persisted |-> persisted]

----------------------------------------------------------------------------
(* Service functions.  Each takes the store (and the clock where it reads   *)
(* it) and yields the Outcome of the call.  The en dash of the two          *)
(* INVALID_LICENSE_PLATE messages is written "-".                           *)

InvalidPlateMessage ==
    "Invalid license plate: must be 5-10 alphanumeric characters (A-Z, 0-9)"

\* The id of a vehicle when Date.now() returns t: 'v' + Date.now()
newId(t) == "v" \o ToString(t)

\* Mutant: the model checked before the plate, and the duplicate check before
\* the format check.
createVehicleReordered(vs, t, t2, licensePlate, model) ==
    IF model = ""
    THEN Outcome(err("MODEL_REQUIRED", "model is required"), vs, FALSE)
    ELSE IF licensePlate = <<>>
    THEN Outcome(err("LICENSE_PLATE_REQUIRED", "licensePlate is required"), vs, FALSE)
    ELSE LET normalizedPlate == normalizePlate(licensePlate) IN
         IF plateTaken(vs, normalizedPlate)
         THEN Outcome(err("DUPLICATE_LICENSE_PLATE",
                          "A vehicle with this license plate already exists"), vs, FALSE)
         ELSE IF ~isValidPlateNorm(normalizedPlate)
         THEN Outcome(err("INVALID_LICENSE_PLATE", InvalidPlateMessage), vs, FALSE)
         ELSE LET newVehicle == [id |-> newId(t),
                                 licensePlate |-> normalizedPlate,
                                 model |-> model,
                                 status |-> "Available",
                                 createdAt |-> t2]
              IN Outcome(Ok(newVehicle), push(vs, newVehicle), TRUE)

\* createVehicle(licensePlate, model).  The function reads the clock twice: t is
\* what Date.now() returns for the id, t2 what new Date() holds for createdAt.
createVehicle(vs, t, t2, licensePlate, model) ==
    IF licensePlate = <<>>
    THEN Outcome(err("LICENSE_PLATE_REQUIRED", "licensePlate is required"), vs, FALSE)
    ELSE IF model = ""
    THEN Outcome(err("MODEL_REQUIRED", "model is required"), vs, FALSE)
    ELSE LET normalizedPlate == normalizePlate(licensePlate) IN
         IF ~isValidPlateNorm(normalizedPlate)
         THEN Outcome(err("INVALID_LICENSE_PLATE", InvalidPlateMessage), vs, FALSE)
         ELSE IF plateTaken(vs, normalizedPlate)
         THEN Outcome(err("DUPLICATE_LICENSE_PLATE",
                          "A vehicle with this license plate already exists"), vs, FALSE)
         ELSE LET newVehicle == [id |-> newId(t),
                                 licensePlate |-> normalizedPlate,
                                 model |-> model,
                                 status |-> "Available",
                                 createdAt |-> t2]
              IN Outcome(Ok(newVehicle), push(vs, newVehicle), TRUE)

\* listVehicles()
listVehicles(vs) == vs

\* Mutant: the vehicle looked up by the raw plate.
editVehicleStatusRawLookup(vs, licensePlate, newStatus) ==
    IF ~isValidStatus(newStatus)
    THEN Outcome(err("INVALID_STATUS", "Invalid vehicle status"), vs, FALSE)
    ELSE LET normalizedPlate == licensePlate
             k == findIndexByPlate(vs, normalizedPlate) IN
         IF k = 0
         THEN Outcome(err("VEHICLE_NOT_FOUND", "Vehicle not found"), vs, FALSE)
         ELSE IF sameStatus(vs[k].status, newStatus)
         THEN Outcome(Ok(vs[k]), vs, FALSE)
         ELSE IF illegalTransition(vs[k].status, newStatus)
         THEN Outcome(err("ILLEGAL_STATUS_TRANSITION",
                  "Illegal status transition from Maintenance. Allowed: Available only"),
                  vs, FALSE)
         ELSE IF entersMaintenance(vs[k].status, newStatus) /\ capExceeded(vs)
         THEN Outcome(err("MAINTENANCE_CAP_EXCEEDED",
                  "Maintenance cap exceeded: up to "
                      \o ToString(maintenanceCap(Len(vs))) \o " vehicles (5%) allowed"),
                  vs, FALSE)
         ELSE LET updated == withStatus(vs, k, newStatus)
              IN Outcome(Ok(updated[k]), updated, TRUE)

\* editVehicleStatus(licensePlate, newStatus)
editVehicleStatus(vs, licensePlate, newStatus) ==
    IF ~isValidStatus(newStatus)
    THEN Outcome(err("INVALID_STATUS", "Invalid vehicle status"), vs, FALSE)
    ELSE LET normalizedPlate == normalizePlate(licensePlate)
             k == findIndexByPlate(vs, normalizedPlate) IN
         IF k = 0
         THEN Outcome(err("VEHICLE_NOT_FOUND", "Vehicle not found"), vs, FALSE)
         ELSE IF sameStatus(vs[k].status, newStatus)
         THEN Outcome(Ok(vs[k]), vs, FALSE)
         ELSE IF illegalTransition(vs[k].status, newStatus)
         THEN Outcome(err("ILLEGAL_STATUS_TRANSITION",
                  "Illegal status transition from Maintenance. Allowed: Available only"),
                  vs, FALSE)
         ELSE IF entersMaintenance(vs[k].status, newStatus) /\ capExceeded(vs)
         THEN Outcome(err("MAINTENANCE_CAP_EXCEEDED",
                  "Maintenance cap exceeded: up to "
                      \o ToString(maintenanceCap(Len(vs))) \o " vehicles (5%) allowed"),
                  vs, FALSE)
         ELSE LET updated == withStatus(vs, k, newStatus)
              IN Outcome(Ok(updated[k]), updated, TRUE)

\* editVehicle(id, newLicensePlate)
editVehicle(vs, id, newLicensePlate) ==
    LET k == findIndexById(vs, id) IN
    IF k = 0
    THEN Outcome(err("VEHICLE_NOT_FOUND", "Vehicle not found"), vs, FALSE)
    ELSE LET normalized == normalizePlate(newLicensePlate) IN
         IF ~isValidPlateNorm(normalized)
         THEN Outcome(err("INVALID_LICENSE_PLATE", InvalidPlateMessage), vs, FALSE)
         ELSE IF samePlate(normalized, vs[k].licensePlate)
         THEN Outcome(Ok(vs[k]), vs, FALSE)
         ELSE IF \E i \in 1..Len(vs) : vs[i].licensePlate = normalized /\ vs[i].id # id
         THEN Outcome(err("DUPLICATE_LICENSE_PLATE",
                          "A vehicle with this license plate already exists"), vs, FALSE)
         ELSE LET updated == [vs EXCEPT ![k].licensePlate = normalized]
              IN Outcome(Ok(updated[k]), updated, TRUE)

\* Mutant: the vehicle removed before its status is tested.
deleteVehicleRemoveFirst(vs, id) ==
    LET index == findIndexById(vs, id) IN
    IF index = 0
    THEN Outcome(err("VEHICLE_NOT_FOUND", "Vehicle not found"), vs, FALSE)
    ELSE IF ~deletable(vs[index].status)
    THEN Outcome(err("NOT_ALLOWED_STATUS_FOR_DELETE",
                     "Only Available vehicles can be deleted"), splice(vs, index), FALSE)
    ELSE Outcome(Ok([deletedId |-> id]), splice(vs, index), TRUE)

\* deleteVehicle(id)
deleteVehicle(vs, id) ==
    LET index == findIndexById(vs, id) IN
    IF index = 0
    THEN Outcome(err("VEHICLE_NOT_FOUND", "Vehicle not found"), vs, FALSE)
    ELSE IF ~deletable(vs[index].status)
    THEN Outcome(err("NOT_ALLOWED_STATUS_FOR_DELETE",
                     "Only Available vehicles can be deleted"), vs, FALSE)
    ELSE Outcome(Ok([deletedId |-> id]), splice(vs, index), TRUE)

----------------------------------------------------------------------------
(* Stores the service can be started on, and the arguments of the calls *)

\* "0".."99" as the two characters of a plate
TwoDigits(i) == <<Digits[((i \div 10) % 10) + 1], Digits[(i % 10) + 1]>>

\* The plate of the i-th seeded vehicle, e.g. "11AAA11": normalized and valid
SeedPlate(i) == TwoDigits(i) \o <<"A", "A", "A">> \o TwoDigits(i)

SeedVehicle(i, status) ==
    [id |-> ToString(i), licensePlate |-> SeedPlate(i), model |-> "Model-A",
     status |-> status, createdAt |-> 0 - i]

\* A fleet of n vehicles, all Available
Fleet(n) == [i \in 1..n |-> SeedVehicle(i, "Available")]

\* One vehicle in each status (1 of 3 in Maintenance: within the cap of 1)
MixedSeed ==
    <<SeedVehicle(1, "Maintenance"), SeedVehicle(2, "InUse"), SeedVehicle(3, "Available")>>

\* The documents the service is loaded from
Seeds == {<<>>, MixedSeed, Fleet(SmallFleet), Fleet(LargeFleet)}

\* Raw plates given to the calls: "01-aaa-01" and "02AAA02" name the first two
\* seeded vehicles, "ab 123 c" is a valid new plate, "a-b 1" normalizes to the
\* invalid "AB1", and the empty string.
RawPlates ==
    { <<"0","1","-","a","a","a","-","0","1">>,
      <<"0","2","A","A","A","0","2">>,
      <<"a","b"," ","1","2","3"," ","c">>,
      <<"a","-","b"," ","1">>,
      <<>> }

Models == {"", "Model-X"}

StatusArgs == {"Available", "InUse", "Maintenance", "Broken"}

IdArgs == {"1", "2", "3", "nope"} \cup { newId(t) : t \in 0..MaxClock }

NoCall ==
    [op |-> "none", plate |-> <<>>, model |-> "", status |-> "", id |-> "",
     at |-> 0, result |-> Ok(<<>>), before |-> <<>>, writesBefore |-> 0]

----------------------------------------------------------------------------
(* The state machine *)

Init ==
    /\ vehicles \in Seeds
    /\ file = vehicles         \* JSON.parse(fs.readFileSync(dataPath))
    /\ writeCalls = 0
    /\ now = 0
    /\ last = NoCall

\* A call runs to completion (the service is synchronous, one call at a
\* time): the store becomes the outcome's store, and persist(), when the call
\* reaches it, rewrites the whole document.
Completed(call, out, clock) ==
    /\ last.op = "none"
    /\ writeCalls < MaxWrites
    /\ vehicles' = out.vehicles
    /\ file' = IF out.persisted THEN out.vehicles ELSE file
    /\ writeCalls' = IF out.persisted THEN writeCalls + 1 ELSE writeCalls
    /\ last' = [call EXCEPT !.result = out.result, !.before = vehicles,
                            !.writesBefore = writeCalls, !.at = now]
    /\ now' = clock

\* A call that does not read the clock: no time passes within it.
Complete(call, out) == Completed(call, out, now)

\* The clock after a create that read it for createdAt
ClockAfter(out, t2) == IF out.result.ok THEN t2 ELSE now

Create ==
    \E p \in RawPlates, m \in Models, t2 \in now..MaxClock :
        LET out == createVehicle(vehicles, now, t2, p, m)
        IN Completed([NoCall EXCEPT !.op = "create", !.plate = p, !.model = m],
                     out, ClockAfter(out, t2))

EditStatus ==
    \E p \in RawPlates, st \in StatusArgs :
        Complete([NoCall EXCEPT !.op = "editStatus", !.plate = p, !.status = st],
                 editVehicleStatus(vehicles, p, st))

EditPlate ==
    \E id \in IdArgs, p \in RawPlates :
        Complete([NoCall EXCEPT !.op = "editPlate", !.id = id, !.plate = p],
                 editVehicle(vehicles, id, p))

Delete ==
    \E id \in IdArgs :
        Complete([NoCall EXCEPT !.op = "delete", !.id = id],
                 deleteVehicle(vehicles, id))

\* The caller takes the result; the next call can start.
Return ==
    /\ last.op # "none"
    /\ last' = NoCall
    /\ UNCHANGED <<vehicles, file, writeCalls, now>>

\* Time passes between two calls.
Tick ==
    /\ last.op = "none"
    /\ now < MaxClock
    /\ now' = now + 1
    /\ UNCHANGED <<vehicles, file, writeCalls, last>>

Next == Create \/ EditStatus \/ EditPlate \/ Delete \/ Return \/ Tick

Spec == Init /\ [][Next]_vars

----------------------------------------------------------------------------
(* The HTTP adapter (routes/vehicleRoutes.ts).  A request runs its route     *)
(* handler to completion; `last` then also holds the response, the           *)
(* x-admin-token header and ADMIN_DELETE_TOKEN as the handler read them, and *)
(* the document as it was before the request.  A header or an environment    *)
(* variable is <<>> when absent and <<s>> when it has the value s.           *)

Undefined == <<>>

\* Mutant: the conflict codes answered like validation errors.
toHttpStatusConflictAsBadRequest(code) ==
    IF code \in {"LICENSE_PLATE_REQUIRED", "MODEL_REQUIRED", "INVALID_LICENSE_PLATE",
                 "INVALID_STATUS", "DUPLICATE_LICENSE_PLATE",
                 "ILLEGAL_STATUS_TRANSITION", "MAINTENANCE_CAP_EXCEEDED",
                 "NOT_ALLOWED_STATUS_FOR_DELETE"} THEN 400
    ELSE IF code = "VEHICLE_NOT_FOUND" THEN 404
    ELSE IF code = "ADMIN_APPROVAL_REQUIRED" THEN 403
    ELSE 500

\* toHttpStatus(code)
toHttpStatus(code) ==
    IF code \in {"LICENSE_PLATE_REQUIRED", "MODEL_REQUIRED", "INVALID_LICENSE_PLATE",
                 "INVALID_STATUS"} THEN 400
    ELSE IF code \in {"DUPLICATE_LICENSE_PLATE", "ILLEGAL_STATUS_TRANSITION",
                      "MAINTENANCE_CAP_EXCEEDED", "NOT_ALLOWED_STATUS_FOR_DELETE"} THEN 409
    ELSE IF code = "VEHICLE_NOT_FOUND" THEN 404
    ELSE IF code = "ADMIN_APPROVAL_REQUIRED" THEN 403
    ELSE 500

\* res.status(status).json(body)
Response(status, body) == [status |-> status, body |-> body]

\* sendResult(res, result, successStatus)
sendResult(result, successStatus) ==
    IF result.ok
    THEN Response(successStatus, result.data)
    ELSE Response(toHttpStatus(result.error.code), [error |-> result.error])

\* Mutant: the gate compares the two tokens only, so a request without the
\* header passes when no token is configured.
adminDeniedCompareOnly(expected, token) == token # expected

\* The gate of the DELETE route: !expected || token !== expected
adminDenied(expected, token) ==
    \/ expected = Undefined
    \/ expected = <<"">>
    \/ token # expected

\* The answer of the DELETE route to a request that does not pass the gate
AdminApprovalRequired ==
    Response(403, [error |-> [code |-> "ADMIN_APPROVAL_REQUIRED",
                              message |-> "Admin approval required"]])

\* What a route handler leaves behind: the response, and the outcome of the
\* service call it made (engine = FALSE: it made none).
Handled(response, engine, out) ==
    [response |-> response, engine |-> engine, out |-> out]

\* router.post('/')
postVehicle(vs, t, t2, licensePlate, model) ==
    LET r == createVehicle(vs, t, t2, licensePlate, model)
    IN Handled(sendResult(r.result, 201), TRUE, r)

\* router.patch('/:licensePlate/status')
patchStatus(vs, licensePlate, status) ==
    LET r == editVehicleStatus(vs, licensePlate, status)
    IN Handled(sendResult(r.result, 200), TRUE, r)

\* router.patch('/:id/plate')
patchPlate(vs, id, licensePlate) ==
    LET r == editVehicle(vs, id, licensePlate)
    IN Handled(sendResult(r.result, 200), TRUE, r)

\* router.delete('/:id')
deleteRoute(vs, expected, token, id) ==
    IF adminDenied(expected, token)
    THEN Handled(AdminApprovalRequired, FALSE, Outcome(Ok(<<>>), vs, FALSE))
    ELSE LET r == deleteVehicle(vs, id) IN
         IF r.result.ok
         THEN Handled(Response(200, r.result.data), TRUE, r)
         ELSE Handled(Response(toHttpStatus(r.result.error.code),
                               [error |-> r.result.error]), TRUE, r)

\* router.get('/')
getVehicles(vs) ==
    Handled(Response(200, listVehicles(vs)), TRUE, Outcome(Ok(listVehicles(vs)), vs, FALSE))

\* The values of the x-admin-token header and of ADMIN_DELETE_TOKEN
TokenHeaders == {Undefined, <<"">>, <<"secret">>, <<"guess">>}

ConfiguredTokens == {Undefined, <<"">>, <<"secret">>}

NoRequest ==
    NoCall @@ [token |-> Undefined, expected |-> Undefined, engine |-> FALSE,
               fileBefore |-> <<>>, response |-> Response(0, <<>>)]

\* The documents the adapter's service is loaded from: the answers of the
\* adapter do not depend on the size of the fleet.
HttpSeeds == {<<>>, MixedSeed}

HttpInit ==
    /\ vehicles \in HttpSeeds
    /\ file = vehicles
    /\ writeCalls = 0
    /\ now = 0
    /\ last = NoRequest

\* A request handled to completion
HandleAt(request, h, clock) ==
    Completed([request EXCEPT !.response = h.response, !.engine = h.engine,
                              !.fileBefore = file],
              h.out, clock)

\* A request whose handler does not read the clock
Handle(request, h) == HandleAt(request, h, now)

HttpPost ==
    \E p \in RawPlates, m \in Models, t2 \in now..MaxClock :
        LET h == postVehicle(vehicles, now, t2, p, m)
        IN HandleAt([NoRequest EXCEPT !.op = "create", !.plate = p, !.model = m],
                    h, ClockAfter(h.out, t2))

HttpPatchStatus ==
    \E p \in RawPlates \ {<<>>}, st \in StatusArgs :
        Handle([NoRequest EXCEPT !.op = "editStatus", !.plate = p, !.status = st],
               patchStatus(vehicles, p, st))

HttpPatchPlate ==
    \E id \in IdArgs, p \in RawPlates :
        Handle([NoRequest EXCEPT !.op = "editPlate", !.id = id, !.plate = p],
               patchPlate(vehicles, id, p))

HttpDelete ==
    \E id \in IdArgs, expected \in ConfiguredTokens, token \in TokenHeaders :
        Handle([NoRequest EXCEPT !.op = "delete", !.id = id,
                                 !.expected = expected, !.token = token],
               deleteRoute(vehicles, expected, token, id))

HttpGet ==
    Handle([NoRequest EXCEPT !.op = "list"], getVehicles(vehicles))

\* The response is sent; the next request can be handled.
HttpReturn ==
    /\ last.op # "none"
    /\ last' = NoRequest
    /\ UNCHANGED <<vehicles, file, writeCalls, now>>

HttpNext ==
    HttpPost \/ HttpPatchStatus \/ HttpPatchPlate \/ HttpDelete \/ HttpGet
        \/ HttpReturn \/ Tick

HttpSpec == HttpInit /\ [][HttpNext]_vars

----------------------------------------------------------------------------

(* Plates.  The normalizer and the validator applied to raw plates of every  *)
(* length up to MaxPlateLen, and the three calls that take a raw plate       *)
(* applied to a store that holds plates of the same family.                  *)

\* n letters and digits, "S1S2S3...", in upper or in lower case
PlateBody(n, letter) ==
    [i \in 1..n |-> IF i % 2 = 1 THEN letter ELSE Digits[((i \div 2) % 10) + 1]]

\* Raw plates: a body of 0..MaxPlateLen characters in upper or lower case,
\* after nothing, a dash or U+00DF, and before nothing or a space.
PlateInputs ==
    { pre \o PlateBody(n, letter) \o post :
        n \in 0..MaxPlateLen, letter \in {"S", "s"},
        pre \in {<<>>, <<"-">>, <<"sz">>}, post \in {<<>>, <<" ">>} }

\* The store PlateSpec starts on: the three vehicles of MixedSeed, holding the
\* plates "S1S2S", "S1S2S3" and "S1S2S3S"
PlateSeed ==
    [i \in 1..3 |-> [MixedSeed[i] EXCEPT !.licensePlate = PlateBody(4 + i, "S")]]

PlateInit ==
    /\ vehicles = PlateSeed
    /\ file = vehicles
    /\ writeCalls = 0
    /\ now = 0
    /\ last = NoCall

\* normalizePlate applied to a raw plate, and to its own result
Normalize ==
    /\ last.op = "none"
    /\ \E p \in PlateInputs :
           last' = [NoCall EXCEPT !.op = "normalize", !.plate = p,
                       !.result = [once |-> normalizePlate(p),
                                   twice |-> normalizePlate(normalizePlate(p))]]
    /\ UNCHANGED <<vehicles, file, writeCalls, now>>

\* isValidPlateNorm applied to a string
Validate ==
    /\ last.op = "none"
    /\ \E p \in PlateInputs :
           last' = [NoCall EXCEPT !.op = "validate", !.plate = p,
                       !.result = [accepted |-> isValidPlateNorm(p)]]
    /\ UNCHANGED <<vehicles, file, writeCalls, now>>

PlateCreate ==
    /\ writeCalls < MaxPlateWrites
    /\ \E p \in PlateInputs, m \in Models, t2 \in now..MaxClock :
           LET out == createVehicle(vehicles, now, t2, p, m)
           IN Completed([NoCall EXCEPT !.op = "create", !.plate = p, !.model = m],
                        out, ClockAfter(out, t2))

PlateEditStatus ==
    /\ writeCalls < MaxPlateWrites
    /\ \E p \in PlateInputs, st \in StatusArgs :
           Complete([NoCall EXCEPT !.op = "editStatus", !.plate = p, !.status = st],
                    editVehicleStatus(vehicles, p, st))

PlateEditPlate ==
    /\ writeCalls < MaxPlateWrites
    /\ \E id \in IdArgs, p \in PlateInputs :
           Complete([NoCall EXCEPT !.op = "editPlate", !.id = id, !.plate = p],
                    editVehicle(vehicles, id, p))

PlateNext ==
    Normalize \/ Validate \/ PlateCreate \/ PlateEditStatus \/ PlateEditPlate \/ Return

PlateSpec == PlateInit /\ [][PlateNext]_vars

----------------------------------------------------------------------------

(* The status options of a table row in the UI (frontend/src/App.tsx) *)

ALL_STATUSES == <<"Available", "InUse", "Maintenance">>

\* statusOptionsForRow(current, fleet): one { value, disabled } per status
statusOptionsForRow(current, fleet) ==
    LET total == Len(fleet)
        cap == Max(1, (total * 5) \div 100)
        currentMaintenance ==
            Cardinality({ i \in 1..Len(fleet) : fleet[i].status = "Maintenance" })
        canEnterMaintenance == current # "Maintenance" /\ currentMaintenance < cap
    IN [k \in 1..Len(ALL_STATUSES) |->
           LET value == ALL_STATUSES[k]
               disallowFromMaintenance == current = "Maintenance" /\ value = "InUse"
               disallowEnterMaintenance ==
                   current # "Maintenance" /\ value = "Maintenance" /\ ~canEnterMaintenance
           IN [value |-> value,
               disabled |-> disallowFromMaintenance \/ disallowEnterMaintenance]]

----------------------------------------------------------------------------

(* Properties.  `Called(op)` holds in the state a call of `op` leaves, while  *)
(* its result, its arguments and the store it ran on are still in `last`.    *)

Called(op) == last.op = op

AnyCall == last.op # "none"

Failed(code) == ~last.result.ok /\ last.result.error.code = code

\* The cap as the specification words it: max(1, floor(total * 0.05))
FivePercentCap(total) == IF total >= 40 THEN total \div 20 ELSE 1

\* The vehicle of the store before the call that editStatus looked up (0: none)
StatusTarget == findIndexByPlate(last.before, normalizePlate(last.plate))

\* The vehicle of the store before the call that editPlate / delete looked up
IdTarget == findIndexById(last.before, last.id)

\* C1: after any sequence of create, editStatus, editPlate and delete calls the
\* number of vehicles in Maintenance is at most max(1, floor(total * 0.05)) of
\* the current total.
C1_MaintenanceWithinCap ==
    maintenanceCount(vehicles) <= FivePercentCap(Len(vehicles))

\* C2: after any sequence of calls no two vehicles of the store hold the same
\* licensePlate.
C2_PlatesPairwiseDistinct ==
    \A i, j \in 1..Len(vehicles) :
        i # j => vehicles[i].licensePlate # vehicles[j].licensePlate

\* C3: every successful create assigns an id that differs from the id of every
\* vehicle already in the store, whatever the clock reads.
C3_CreateAssignsFreshId ==
    (Called("create") /\ last.result.ok) =>
        \A i \in 1..Len(last.before) : last.before[i].id # last.result.data.id

\* Where the i-th vehicle of the store before the call can be afterwards: a
\* successful delete moves the vehicles behind the deleted one up by one.
PlacesAfter(i) ==
    (IF Called("delete") /\ last.result.ok THEN {i - 1, i} ELSE {i})
        \cap (1..Len(vehicles))

\* C4: for a vehicle in Maintenance, editStatus to InUse fails with
\* ILLEGAL_STATUS_TRANSITION and editStatus to Available succeeds; and across
\* every single call a vehicle that was in Maintenance is still in the store
\* afterwards, in Maintenance or Available.
C4_MaintenanceLeavesOnlyToAvailable ==
    /\ (/\ Called("editStatus")
        /\ StatusTarget # 0
        /\ last.before[StatusTarget].status = "Maintenance") =>
            /\ last.status = "InUse" =>
                  /\ Failed("ILLEGAL_STATUS_TRANSITION")
                  /\ vehicles[StatusTarget].status = "Maintenance"
            /\ last.status = "Available" =>
                  /\ last.result.ok
                  /\ last.result.data.status = "Available"
                  /\ vehicles[StatusTarget].status = "Available"
    /\ AnyCall =>
          \A i \in 1..Len(last.before) :
              last.before[i].status = "Maintenance" =>
                  \E j \in PlacesAfter(i) :
                      /\ vehicles[j].id = last.before[i].id
                      /\ vehicles[j].createdAt = last.before[i].createdAt
                      /\ vehicles[j].model = last.before[i].model
                      /\ vehicles[j].status \in {"Maintenance", "Available"}

\* C4 witness: editStatus(_, InUse) on a vehicle in Maintenance was refused.
C4_Witness ==
    /\ Called("editStatus")
    /\ StatusTarget # 0
    /\ last.before[StatusTarget].status = "Maintenance"
    /\ last.status = "InUse"
    /\ Failed("ILLEGAL_STATUS_TRANSITION")

\* C5: for an id present in the store (the vehicle the id resolves to), delete
\* succeeds, removing that vehicle and returning its id, iff the vehicle is
\* Available; for InUse or Maintenance it returns
\* NOT_ALLOWED_STATUS_FOR_DELETE and store and write count are unchanged.
C5_DeleteIffAvailable ==
    (Called("delete") /\ IdTarget # 0) =>
        IF last.before[IdTarget].status = "Available"
        THEN /\ last.result.ok
             /\ last.result.data.deletedId = last.id
             /\ Len(vehicles) = Len(last.before) - 1
             /\ \A i \in 1..Len(vehicles) :
                    vehicles[i] = last.before[IF i < IdTarget THEN i ELSE i + 1]
        ELSE /\ Failed("NOT_ALLOWED_STATUS_FOR_DELETE")
             /\ vehicles = last.before
             /\ writeCalls = last.writesBefore

\* C5 witness: delete of an InUse vehicle was refused.
C5_Witness ==
    /\ Called("delete")
    /\ IdTarget # 0
    /\ last.before[IdTarget].status = "InUse"
    /\ Failed("NOT_ALLOWED_STATUS_FOR_DELETE")

\* C6: a call that succeeds and changes the store performs exactly one write,
\* of the whole store; a call that is a no-op or returns an error performs
\* none.
C6_OneWriteIffStoreChanged ==
    AnyCall =>
        IF last.result.ok /\ vehicles # last.before
        THEN writeCalls = last.writesBefore + 1 /\ file = vehicles
        ELSE writeCalls = last.writesBefore /\ vehicles = last.before

\* C6 witness: a no-op editPlate (same normalized plate) after earlier writes.
C6_Witness ==
    /\ Called("editPlate")
    /\ last.result.ok
    /\ vehicles = last.before
    /\ last.plate # last.result.data.licensePlate
    /\ last.writesBefore > 0
    /\ writeCalls = last.writesBefore

\* C7: editStatus(plate, Maintenance) on an existing vehicle not in Maintenance
\* succeeds iff (maintenance count + 1) <= max(1, floor(total * 0.05)); otherwise
\* it fails with MAINTENANCE_CAP_EXCEEDED and the status is unchanged.
C7_MaintenanceEntryIffWithinCap ==
    (/\ Called("editStatus")
     /\ last.status = "Maintenance"
     /\ StatusTarget # 0
     /\ last.before[StatusTarget].status # "Maintenance") =>
        IF maintenanceCount(last.before) + 1 <= FivePercentCap(Len(last.before))
        THEN /\ last.result.ok
             /\ vehicles[StatusTarget].status = "Maintenance"
        ELSE /\ Failed("MAINTENANCE_CAP_EXCEEDED")
             /\ vehicles[StatusTarget].status = last.before[StatusTarget].status

\* C7 witness: in the fleet of SmallFleet vehicles, all Available but the one
\* the first call put in Maintenance, the second call was refused.
C7_Witness ==
    /\ Called("editStatus")
    /\ last.status = "Maintenance"
    /\ Len(last.before) = SmallFleet
    /\ StatusTarget # 0
    /\ last.before[StatusTarget].status = "Available"
    /\ maintenanceCount(last.before) = 1
    /\ \A i \in 1..Len(last.before) :
           last.before[i].status \in {"Available", "Maintenance"}
    /\ Failed("MAINTENANCE_CAP_EXCEEDED")

\* C8: editStatus with the vehicle's current status (whichever it is, whatever
\* the maintenance count) returns success with the same record, changes
\* nothing in the store and issues no persist call.
C8_SameStatusIsNoOp ==
    (/\ Called("editStatus")
     /\ StatusTarget # 0
     /\ last.before[StatusTarget].status = last.status) =>
        /\ last.result.ok
        /\ last.result.data = last.before[StatusTarget]
        /\ vehicles = last.before
        /\ writeCalls = last.writesBefore

\* C8 witness: editStatus(_, Maintenance) on the vehicle in Maintenance, with
\* the fleet at its cap.
C8_Witness ==
    /\ Called("editStatus")
    /\ StatusTarget # 0
    /\ last.status = "Maintenance"
    /\ last.before[StatusTarget].status = "Maintenance"
    /\ maintenanceCount(last.before) = FivePercentCap(Len(last.before))
    /\ last.result.ok

\* Number of listed vehicles whose plate is the normalized raw plate of the call
ListedWithCalledPlate ==
    Cardinality({ i \in 1..Len(listVehicles(vehicles)) :
                    listVehicles(vehicles)[i].licensePlate = normalizePlate(last.plate) })

\* A plate of 5 to 10 upper-case letters and digits
WellFormedPlate(p) ==
    /\ Len(p) \in 5..10
    /\ \A i \in 1..Len(p) : p[i] \in UpperAlnumChars

\* C9 as stated: for all raw plates, after create(rawPlate, model) with a
\* non-empty model, list contains exactly one vehicle whose licensePlate
\* equals normalize(rawPlate).
C9_AnyPlateListedOnce ==
    (Called("create") /\ last.model # "") => ListedWithCalledPlate = 1

\* C9 amended: for every raw plate whose normalization is 5 to 10 upper-case
\* letters and digits, after create(rawPlate, model) with a non-empty model,
\* list contains at least one vehicle whose licensePlate equals
\* normalize(rawPlate), and exactly one when the create succeeded.
C9_ValidPlateListed ==
    (/\ Called("create")
     /\ last.model # ""
     /\ WellFormedPlate(normalizePlate(last.plate))) =>
        /\ ListedWithCalledPlate >= 1
        /\ last.result.ok => ListedWithCalledPlate = 1

\* C9 witness: a create with a raw plate that is not in normalized form
\* succeeded and its normalized plate is listed once.
C9_Witness ==
    /\ Called("create")
    /\ last.model # ""
    /\ last.plate # normalizePlate(last.plate)
    /\ last.result.ok
    /\ ListedWithCalledPlate = 1

\* C10: when create succeeds, the returned vehicle is Available with the
\* normalized input as licensePlate, it is the last element of the store, the
\* store is longer by exactly one and every vehicle stored before is unchanged.
C10_CreateAppendsAvailable ==
    (Called("create") /\ last.result.ok) =>
        /\ last.result.data.status = "Available"
        /\ last.result.data.licensePlate = normalizePlate(last.plate)
        /\ Len(vehicles) = Len(last.before) + 1
        /\ vehicles[Len(vehicles)] = last.result.data
        /\ \A i \in 1..Len(last.before) : vehicles[i] = last.before[i]

\* C10 witness: a create succeeded on a store that held vehicles.
C10_Witness ==
    /\ Called("create")
    /\ last.result.ok
    /\ Len(last.before) > 1
    /\ vehicles[Len(vehicles)].licensePlate = normalizePlate(last.plate)

\* Some vehicle of the store before the call holds the plate
HeldBefore(plate) ==
    \E i \in 1..Len(last.before) : last.before[i].licensePlate = plate

\* C11: if a vehicle with normalized plate P is in the store, create with any
\* raw plate that normalizes to P and a non-empty model fails with
\* DUPLICATE_LICENSE_PLATE, leaves the store unchanged and performs no write.
C11_CreateOfHeldPlateRefused ==
    (/\ Called("create")
     /\ last.model # ""
     /\ HeldBefore(normalizePlate(last.plate))) =>
        /\ Failed("DUPLICATE_LICENSE_PLATE")
        /\ vehicles = last.before
        /\ writeCalls = last.writesBefore

\* C11 witness: a raw plate not in normalized form, whose normalization the
\* second vehicle of the store holds, was refused as a duplicate.
C11_Witness ==
    /\ Called("create")
    /\ last.model # ""
    /\ last.plate # normalizePlate(last.plate)
    /\ Len(last.before) >= 2
    /\ last.before[2].licensePlate = normalizePlate(last.plate)
    /\ Failed("DUPLICATE_LICENSE_PLATE")

\* C12: create reports the first failing check in the order
\* LICENSE_PLATE_REQUIRED (raw plate empty), MODEL_REQUIRED (model empty),
\* INVALID_LICENSE_PLATE (normalized plate not 5-10 upper-case alphanumerics),
\* DUPLICATE_LICENSE_PLATE, and succeeds when none fails; so an invalid plate
\* never gives DUPLICATE_LICENSE_PLATE.
C12_CreateFirstFailingCheck ==
    Called("create") =>
        /\ IF last.plate = <<>> THEN Failed("LICENSE_PLATE_REQUIRED")
           ELSE IF last.model = "" THEN Failed("MODEL_REQUIRED")
           ELSE IF ~WellFormedPlate(normalizePlate(last.plate))
                THEN Failed("INVALID_LICENSE_PLATE")
           ELSE IF HeldBefore(normalizePlate(last.plate))
                THEN Failed("DUPLICATE_LICENSE_PLATE")
           ELSE last.result.ok
        /\ ~WellFormedPlate(normalizePlate(last.plate)) =>
               ~Failed("DUPLICATE_LICENSE_PLATE")

\* C12 witness: an invalid plate with an empty model gave MODEL_REQUIRED.
C12_Witness ==
    /\ Called("create")
    /\ last.plate # <<>>
    /\ ~WellFormedPlate(normalizePlate(last.plate))
    /\ last.model = ""
    /\ Failed("MODEL_REQUIRED")

\* A vehicle other than the one editPlate looked up holds the plate
HeldByAnother(plate) ==
    \E i \in 1..Len(last.before) :
        i # IdTarget /\ last.before[i].licensePlate = plate

\* C13: editPlate reports the first failing check in the order
\* VEHICLE_NOT_FOUND (no vehicle has the id), INVALID_LICENSE_PLATE (normalized
\* plate not 5-10 upper-case alphanumerics), DUPLICATE_LICENSE_PLATE (another
\* vehicle holds the normalized plate); when none fails and the normalized
\* plate differs from the current one, the target's licensePlate becomes it.
C13_EditPlateFirstFailingCheck ==
    Called("editPlate") =>
        IF IdTarget = 0 THEN Failed("VEHICLE_NOT_FOUND")
        ELSE IF ~WellFormedPlate(normalizePlate(last.plate))
             THEN Failed("INVALID_LICENSE_PLATE")
        ELSE IF HeldByAnother(normalizePlate(last.plate))
             THEN Failed("DUPLICATE_LICENSE_PLATE")
        ELSE /\ last.result.ok
             /\ vehicles[IdTarget].licensePlate = normalizePlate(last.plate)

\* C14: for every existing vehicle, editPlate with a raw plate whose
\* normalization equals the vehicle's current licensePlate returns success
\* with the current plate, changes nothing in the store and performs no write.
C14_SamePlateIsNoOp ==
    (/\ Called("editPlate")
     /\ IdTarget # 0
     /\ normalizePlate(last.plate) = last.before[IdTarget].licensePlate) =>
        /\ last.result.ok
        /\ last.result.data = last.before[IdTarget]
        /\ vehicles = last.before
        /\ writeCalls = last.writesBefore

\* C14 witness: editPlate("1", "01-aaa-01") on the vehicle holding "01AAA01".
C14_Witness ==
    /\ Called("editPlate")
    /\ IdTarget # 0
    /\ last.plate # normalizePlate(last.plate)
    /\ normalizePlate(last.plate) = last.before[IdTarget].licensePlate
    /\ last.result.ok
    /\ last.result.data.licensePlate = normalizePlate(last.plate)

\* C15: for every existing vehicle V, editPlate(V.id, raw) where normalize(raw)
\* is the licensePlate of a different vehicle of the store fails with
\* DUPLICATE_LICENSE_PLATE, and the store and the write count are unchanged.
C15_EditPlateToHeldPlateRefused ==
    (/\ Called("editPlate")
     /\ IdTarget # 0
     /\ HeldByAnother(normalizePlate(last.plate))) =>
        /\ Failed("DUPLICATE_LICENSE_PLATE")
        /\ vehicles = last.before
        /\ writeCalls = last.writesBefore

\* C16: editStatus checks the status value before it looks up the vehicle: a
\* newStatus outside {Available, InUse, Maintenance} gives INVALID_STATUS
\* whether or not the plate matches a vehicle, a valid newStatus with a plate
\* whose normalization matches no vehicle gives VEHICLE_NOT_FOUND; both leave
\* the store unchanged.
C16_StatusCheckedBeforeLookup ==
    Called("editStatus") =>
        /\ last.status \notin {"Available", "InUse", "Maintenance"} =>
              /\ Failed("INVALID_STATUS")
              /\ vehicles = last.before
        /\ (/\ last.status \in {"Available", "InUse", "Maintenance"}
            /\ ~HeldBefore(normalizePlate(last.plate))) =>
              /\ Failed("VEHICLE_NOT_FOUND")
              /\ vehicles = last.before

\* C16 witness: an invalid status for a plate that matches a vehicle.
C16_Witness ==
    /\ Called("editStatus")
    /\ last.status = "Broken"
    /\ HeldBefore(normalizePlate(last.plate))
    /\ Failed("INVALID_STATUS")

\* C17: for an existing vehicle the transitions Available -> InUse and
\* InUse -> Available always succeed, whatever the maintenance count and the
\* fleet size; the maintenance cap is consulted only when the new status is
\* Maintenance.
C17_InUseAndBackAlwaysAllowed ==
    Called("editStatus") =>
        /\ (/\ StatusTarget # 0
            /\ <<last.before[StatusTarget].status, last.status>>
                   \in {<<"Available", "InUse">>, <<"InUse", "Available">>}) =>
              /\ last.result.ok
              /\ last.result.data.status = last.status
              /\ vehicles[StatusTarget].status = last.status
        /\ Failed("MAINTENANCE_CAP_EXCEEDED") => last.status = "Maintenance"

\* C17 witness: Available -> InUse succeeded in a fleet that is at its cap.
C17_Witness ==
    /\ Called("editStatus")
    /\ StatusTarget # 0
    /\ last.before[StatusTarget].status = "Available"
    /\ last.status = "InUse"
    /\ maintenanceCount(last.before) >= FivePercentCap(Len(last.before))
    /\ last.result.ok

\* C18: starting from a store whose plates are all normalized and valid, in
\* every reachable state every vehicle's licensePlate consists of upper-case
\* letters and digits only and has length 5 to 10.
C18_StoredPlatesWellFormed ==
    \A i \in 1..Len(vehicles) : WellFormedPlate(vehicles[i].licensePlate)

\* C18 witness: the store holds a plate set by editPlate and a plate set by
\* create, both given in raw form.
C18_Witness ==
    /\ Called("editPlate")
    /\ last.result.ok
    /\ vehicles # last.before
    /\ last.plate # normalizePlate(last.plate)
    /\ \E i \in 1..Len(vehicles) : vehicles[i].createdAt >= 0

\* The i-th vehicle after the call is the i-th vehicle before it, up to `field`
SameExcept(i, field) ==
    \A f \in DOMAIN last.before[i] \ {field} : vehicles[i][f] = last.before[i][f]

\* C19: no call changes the id, createdAt or model of a vehicle that stays in
\* the store; editStatus changes at most the status of the one vehicle it
\* targets, editPlate at most the licensePlate of the one vehicle it targets,
\* and neither changes the number or the order of the vehicles.
C19_FrameOfEachCall ==
    /\ Called("editStatus") =>
          /\ Len(vehicles) = Len(last.before)
          /\ \A i \in 1..Len(vehicles) :
                 \/ vehicles[i] = last.before[i]
                 \/ i = StatusTarget /\ SameExcept(i, "status")
    /\ Called("editPlate") =>
          /\ Len(vehicles) = Len(last.before)
          /\ \A i \in 1..Len(vehicles) :
                 \/ vehicles[i] = last.before[i]
                 \/ i = IdTarget /\ SameExcept(i, "licensePlate")
    /\ Called("create") =>
          \A i \in 1..Len(last.before) : vehicles[i] = last.before[i]
    /\ Called("delete") =>
          \/ vehicles = last.before
          \/ /\ Len(vehicles) = Len(last.before) - 1
             /\ \E d \in 1..Len(last.before) :
                    \A i \in 1..Len(vehicles) :
                        vehicles[i] = last.before[IF i < d THEN i ELSE i + 1]

\* C19 witness: editStatus changed the status of its target, a seeded vehicle
\* in a store of several.
C19_Witness ==
    /\ Called("editStatus")
    /\ StatusTarget # 0
    /\ Len(last.before) > 1
    /\ last.before[StatusTarget].createdAt < 0
    /\ vehicles[StatusTarget].status # last.before[StatusTarget].status

\* The fields of a vehicle record
VehicleFields == {"id", "licensePlate", "model", "status", "createdAt"}

\* C20: every call of create, editStatus, editPlate and delete returns either
\* a success value carrying data or a failure value carrying an error
\* {code, message}; no rule violation is signalled in another way.
C20_ResultIsTaggedUnion ==
    AnyCall =>
        IF last.result.ok
        THEN /\ DOMAIN last.result = {"ok", "data"}
             /\ DOMAIN last.result.data =
                    (IF Called("delete") THEN {"deletedId"} ELSE VehicleFields)
        ELSE /\ DOMAIN last.result = {"ok", "error"}
             /\ DOMAIN last.result.error = {"code", "message"}
             /\ last.result.error.code \in ServiceErrorCodes
             /\ last.result.error.message # ""

\* C20 witness: a delete of an unknown id returned the failure value.
C20_Witness ==
    /\ Called("delete")
    /\ IdTarget = 0
    /\ ~last.result.ok
    /\ last.result.error.code = "VEHICLE_NOT_FOUND"
    /\ last.result.error.message = "Vehicle not found"

\* The vehicles of the loaded document have a negative createdAt, -i for the
\* i-th of them; a vehicle made by create has the clock value of its creation.
Loaded(v) == v.createdAt < 0

\* v stands before w in store order: loaded vehicles in the order of the
\* document, then created vehicles in the order of their creation.  The
\* relation is transitive, so a list is in store order when each vehicle
\* stands before the next.
InStoreOrder(v, w) ==
    IF Loaded(v) /\ Loaded(w) THEN v.createdAt > w.createdAt
    ELSE IF Loaded(v) THEN TRUE
    ELSE IF Loaded(w) THEN FALSE
    ELSE v.createdAt <= w.createdAt

\* C21: list returns all vehicles of the store, unfiltered, in store order:
\* after any sequence of operations the order is the loaded order followed by
\* the created vehicles in order of creation, and delete, editStatus and
\* editPlate never change the relative order of the vehicles that remain.
C21_ListInStoreOrder ==
    /\ listVehicles(vehicles) = vehicles
    /\ \A i \in 1..(Len(listVehicles(vehicles)) - 1) :
           InStoreOrder(listVehicles(vehicles)[i], listVehicles(vehicles)[i + 1])
    /\ (Called("editStatus") \/ Called("editPlate")) =>
           /\ Len(vehicles) = Len(last.before)
           /\ \A i \in 1..Len(vehicles) :
                  /\ vehicles[i].id = last.before[i].id
                  /\ vehicles[i].createdAt = last.before[i].createdAt
    /\ (Called("delete") /\ last.result.ok) =>
           /\ Len(vehicles) = Len(last.before) - 1
           /\ \A i \in 1..Len(vehicles) :
                  vehicles[i] = last.before[IF i < IdTarget THEN i ELSE i + 1]

\* C21 witness: a delete took a loaded vehicle out of the middle of a store
\* that holds loaded vehicles behind it and a created vehicle at the end.
C21_Witness ==
    /\ Called("delete")
    /\ last.result.ok
    /\ 1 < IdTarget
    /\ IdTarget < Len(vehicles)
    /\ Loaded(vehicles[IdTarget])
    /\ ~Loaded(vehicles[Len(vehicles)])

\* The status the specification gives to each error code
ExpectedHttpStatus ==
    [c \in ServiceErrorCodes \cup {"ADMIN_APPROVAL_REQUIRED"} |->
        CASE c \in {"LICENSE_PLATE_REQUIRED", "MODEL_REQUIRED",
                    "INVALID_LICENSE_PLATE", "INVALID_STATUS"} -> 400
          [] c = "VEHICLE_NOT_FOUND" -> 404
          [] c = "ADMIN_APPROVAL_REQUIRED" -> 403
          [] OTHER -> 409]

\* The request reached the service, which refused it
EngineRefused == AnyCall /\ last.engine /\ ~last.result.ok

\* C22: the HTTP adapter maps every error code to its status
\* (LICENSE_PLATE_REQUIRED, MODEL_REQUIRED, INVALID_LICENSE_PLATE,
\* INVALID_STATUS -> 400; VEHICLE_NOT_FOUND -> 404; DUPLICATE_LICENSE_PLATE,
\* ILLEGAL_STATUS_TRANSITION, MAINTENANCE_CAP_EXCEEDED,
\* NOT_ALLOWED_STATUS_FOR_DELETE -> 409; ADMIN_APPROVAL_REQUIRED -> 403), and
\* the error {code, message} returned by the engine is sent to the caller
\* unchanged.
C22_ErrorCodeToHttpStatus ==
    /\ \A c \in DOMAIN ExpectedHttpStatus : toHttpStatus(c) = ExpectedHttpStatus[c]
    /\ EngineRefused =>
          /\ last.response.status = ExpectedHttpStatus[last.result.error.code]
          /\ last.response.body = [error |-> last.result.error]
    /\ (AnyCall /\ last.response.status >= 400) =>
          /\ DOMAIN last.response.body = {"error"}
          /\ last.response.status = ExpectedHttpStatus[last.response.body.error.code]

\* C22 witness: a PATCH of the status was refused by the engine because of the
\* maintenance cap and answered 409 with the engine's error.
C22_Witness ==
    /\ Called("editStatus")
    /\ EngineRefused
    /\ last.result.error.code = "MAINTENANCE_CAP_EXCEEDED"
    /\ last.response.status = 409
    /\ last.response.body.error.message = last.result.error.message

\* C23: a DELETE request whose x-admin-token header is missing or differs from
\* the configured admin token, or that arrives when no admin token is
\* configured, is answered 403 ADMIN_APPROVAL_REQUIRED without calling the
\* engine's delete: the store and the persisted document are unchanged,
\* whatever the target vehicle's status.
C23_DeleteNeedsAdminToken ==
    (/\ Called("delete")
     /\ \/ last.token = Undefined
        \/ last.token # last.expected
        \/ last.expected = Undefined) =>
        /\ last.response.status = 403
        /\ last.response.body.error.code = "ADMIN_APPROVAL_REQUIRED"
        /\ ~last.engine
        /\ vehicles = last.before
        /\ file = last.fileBefore
        /\ writeCalls = last.writesBefore

\* C23 witness: a DELETE of an Available vehicle that came without the header
\* while no token was configured was refused, and the vehicle is still there.
C23_Witness ==
    /\ Called("delete")
    /\ last.token = Undefined
    /\ last.expected = Undefined
    /\ IdTarget # 0
    /\ last.before[IdTarget].status = "Available"
    /\ last.writesBefore > 0
    /\ last.response.status = 403
    /\ vehicles[IdTarget] = last.before[IdTarget]

\* C24: plate normalization (uppercase, then remove every character that is
\* not A-Z or 0-9) is idempotent: for every raw plate p,
\* normalize(normalize(p)) = normalize(p).
C24_NormalizeIdempotent ==
    Called("normalize") =>
        /\ last.result.twice = last.result.once
        /\ \A i \in 1..Len(last.result.once) : last.result.once[i] \in UpperAlnumChars

\* C24 witness: a raw plate with a dash, lower-case letters, U+00DF and a
\* space was normalized, to a plate one character longer than its body.
C24_Witness ==
    /\ Called("normalize")
    /\ \E n \in 1..MaxPlateLen :
           /\ last.plate = <<"sz">> \o PlateBody(n, "s") \o <<" ">>
           /\ last.result.once = <<"S", "S">> \o PlateBody(n, "S")
    /\ last.result.twice = last.result.once

\* A create or an editPlate that got as far as the format check
ReachedFormatCheck ==
    \/ Called("create") /\ last.plate # <<>> /\ last.model # ""
    \/ Called("editPlate") /\ IdTarget # 0

\* C25 as stated: the validator accepts a normalized plate iff its length is
\* between 5 and 10 and every character is an upper-case letter or a digit
\* (lengths 4 and 11 and the empty string are rejected), and create and
\* editPlate return INVALID_LICENSE_PLATE exactly when the validator rejects
\* the normalized input.
C25_InvalidExactlyWhenRejected ==
    /\ Called("validate") => (last.result.accepted <=> WellFormedPlate(last.plate))
    /\ (Called("create") \/ Called("editPlate")) =>
          (Failed("INVALID_LICENSE_PLATE")
              <=> ~WellFormedPlate(normalizePlate(last.plate)))

\* C25 amended: the validator accepts a string iff its length is between 5 and
\* 10 and every character is an upper-case letter or a digit (lengths 4 and 11
\* and the empty string are rejected); create, when plate and model are given,
\* and editPlate, when the id is found, return INVALID_LICENSE_PLATE exactly
\* when the validator rejects the normalized input, and never otherwise.
C25_ValidatorDecidesInvalidPlate ==
    /\ Called("validate") =>
          /\ last.result.accepted <=> WellFormedPlate(last.plate)
          /\ Len(last.plate) \in {0, 4, 11} => ~last.result.accepted
    /\ ReachedFormatCheck =>
          (Failed("INVALID_LICENSE_PLATE")
              <=> ~WellFormedPlate(normalizePlate(last.plate)))
    /\ (AnyCall /\ ~Called("normalize") /\ ~Called("validate") /\ ~ReachedFormatCheck) =>
          ~Failed("INVALID_LICENSE_PLATE")

\* C25 witness: create was refused a raw plate of 12 characters whose
\* normalization has the 11 characters "S1S2S3S4S5S".
C25_Witness ==
    /\ Called("create")
    /\ last.model # ""
    /\ Len(last.plate) = 12
    /\ normalizePlate(last.plate) = PlateBody(11, "S")
    /\ Failed("INVALID_LICENSE_PLATE")

\* C26: every call of create, editStatus, editPlate or delete that returns an
\* error leaves the in-memory store exactly as it was before the call: same
\* vehicles, same order, same field values.
C26_ErrorLeavesStoreUnchanged ==
    (AnyCall /\ ~last.result.ok) => vehicles = last.before

\* C26 witness: after earlier successful changes, a delete of a vehicle that
\* is not Available was refused.
C26_Witness ==
    /\ Called("delete")
    /\ IdTarget # 0
    /\ last.writesBefore > 0
    /\ last.before[IdTarget].status = "Maintenance"
    /\ ~last.result.ok
    /\ vehicles[IdTarget].status = "Maintenance"

\* C27: between operations the persisted document always equals the in-memory
\* store: it holds after load, and after every completed create, editStatus,
\* editPlate or delete (successful, no-op or failed) the last written document
\* lists exactly the vehicles of the in-memory store with the same field
\* values and order.
C27_DocumentEqualsStore ==
    /\ Len(file) = Len(vehicles)
    /\ file = vehicles

\* C27 witness: the document after a successful delete that followed two
\* other writes no longer lists the deleted vehicle.
C27_Witness ==
    /\ Called("delete")
    /\ last.result.ok
    /\ last.writesBefore >= 2
    /\ Len(file) = Len(last.before) - 1
    /\ writeCalls = last.writesBefore + 1
    /\ file = vehicles

\* The normalization of every raw plate of PlateSpec
NormalizedInput == [p \in PlateInputs |-> normalizePlate(p)]

\* The raw plates with the same normalization as the plate of the call
SameNormalization ==
    { q \in PlateInputs : NormalizedInput[q] = NormalizedInput[last.plate] }

\* What the call left behind, had it been made with the raw plate q
OutcomeWith(q) ==
    IF Called("create") THEN createVehicle(last.before, last.at, now, q, last.model)
    ELSE IF Called("editStatus") THEN editVehicleStatus(last.before, q, last.status)
    ELSE editVehicle(last.before, last.id, q)

PlateCall == Called("create") \/ Called("editStatus") \/ Called("editPlate")

\* C28 as stated: create, editStatus and editPlate depend on their raw plate
\* argument only through its normalization: for any store state and any two
\* raw plates p and q with normalize(p) = normalize(q), calling the operation
\* with p or with q (other arguments equal) yields the same result value and
\* the same resulting store.
C28_OnlyNormalizationMatters ==
    PlateCall =>
        \A q \in SameNormalization :
            /\ OutcomeWith(q).result = last.result
            /\ OutcomeWith(q).vehicles = vehicles

\* C28 amended: editStatus and editPlate depend on their raw plate argument
\* only through its normalization, and so does create for non-empty raw
\* plates: for any store state and any two raw plates p and q with
\* normalize(p) = normalize(q), both non-empty in the case of create, calling
\* the operation with p or with q (other arguments equal) yields the same
\* result value and the same resulting store; the store is the same for the
\* empty plate too.
C28_NormalizationMattersWhenGiven ==
    PlateCall =>
        \A q \in SameNormalization :
            /\ OutcomeWith(q).vehicles = vehicles
            /\ (Called("create") => (q = <<>> <=> last.plate = <<>>)) =>
                   OutcomeWith(q).result = last.result

\* C28 witness: editStatus with a lower-case plate followed by a space changed
\* the status of the vehicle that holds the normalized plate, and other raw
\* forms of that plate exist.
C28_Witness ==
    /\ Called("editStatus")
    /\ last.result.ok
    /\ vehicles # last.before
    /\ \E n \in 5..10 : last.plate = PlateBody(n, "s") \o <<" ">>
    /\ Cardinality(SameNormalization) >= 4

\* The store after editStatus(plate of the i-th vehicle, st), when the call
\* succeeds; the store itself when it fails
AfterEditStatus(vs, i, st) == editVehicleStatus(vs, vs[i].licensePlate, st)

\* delete with the id of the i-th vehicle of vs succeeds and removes that vehicle
DeleteRemoves(vs, i) ==
    /\ deleteVehicle(vs, vs[i].id).result.ok
    /\ deleteVehicle(vs, vs[i].id).vehicles = splice(vs, i)

\* C29: no status is terminal and no vehicle is ever stuck: in every reachable
\* state, for every vehicle in the store there is an enabled editStatus call
\* that changes its status, and a vehicle in InUse or Maintenance can reach
\* Available in one successful editStatus, after which delete of that vehicle
\* succeeds; so every vehicle can eventually be deleted.
C29_NoVehicleStuck ==
    \A i \in 1..Len(vehicles) :
        /\ \E st \in {"Available", "InUse", "Maintenance"} :
               /\ AfterEditStatus(vehicles, i, st).result.ok
               /\ AfterEditStatus(vehicles, i, st).vehicles[i].status # vehicles[i].status
        /\ IF vehicles[i].status = "Available"
           THEN DeleteRemoves(vehicles, i)
           ELSE /\ AfterEditStatus(vehicles, i, "Available").result.ok
                /\ AfterEditStatus(vehicles, i, "Available").vehicles[i].status = "Available"
                /\ DeleteRemoves(AfterEditStatus(vehicles, i, "Available").vehicles, i)

\* editStatus with the plate of the i-th vehicle and the target status would
\* fail with ILLEGAL_STATUS_TRANSITION or MAINTENANCE_CAP_EXCEEDED
EngineWouldRefuse(vs, i, target) ==
    /\ ~AfterEditStatus(vs, i, target).result.ok
    /\ AfterEditStatus(vs, i, target).result.error.code
           \in {"ILLEGAL_STATUS_TRANSITION", "MAINTENANCE_CAP_EXCEEDED"}

\* C30: the UI's per-row status options agree with the rule engine on the same
\* fleet: for every fleet, every vehicle in it and every target status
\* different from the current one, statusOptionsForRow marks the option
\* disabled if and only if editStatus for that vehicle and target would fail
\* with ILLEGAL_STATUS_TRANSITION or MAINTENANCE_CAP_EXCEEDED.
C30_RowOptionsAgreeWithEngine ==
    \A i \in 1..Len(vehicles) :
        \A k \in 1..Len(ALL_STATUSES) :
            LET option == statusOptionsForRow(vehicles[i].status, listVehicles(vehicles))[k]
            IN option.value # vehicles[i].status =>
                   (option.disabled <=> EngineWouldRefuse(vehicles, i, option.value))

====
